---- MODULE Spec2Model ----
(***************************************************************************)
(* Tic-tac-toe game component (src/src/App.jsx): the component state       *)
(* (board, isXNext, gameOver), the click handler, the reset handler and    *)
(* the status computed on every render.                                    *)
(*                                                                         *)
(* A JavaScript array is modelled as a function from its own integer keys  *)
(* to values: keys >= 0 are the array elements (a key below the length     *)
(* that is absent is a hole), keys < 0 are plain properties.               *)
(***************************************************************************)
EXTENDS Integers, FiniteSets, Sequences, TLC

VARIABLES board, isXNext, gameOver, winner, status, moves, last, held, snap

\* board, isXNext, gameOver: the three useState values of App
\* winner, status: what the last render computed from them
\* moves: the clicks accepted since the start or the last reset
\* last: the last operation, its argument and its outcome
\* held: after a handleClick call, what the array that was the board when
\*       the call began holds now; a fresh empty array after a reset
\* snap: the board, isXNext and gameOver that the last render handed to the
\*       handlers it created (the values their closures read), and the
\*       indices of the clicks accepted against them since that render

vars == <<board, isXNext, gameOver, winner, status, moves, last, held, snap>>

(* ---------------- bounds of the model ---------------- *)
\* how far above 8 an index handed to handleClick may lie
MaxOver == 1
\* cap on the accepted moves between two resets when the handlers are called directly
MaxCalls == 5
\* how many clicks may be accepted against one render before the next render
MaxBatch == 2
\* how many accepted clicks may be overwritten by a later one between two resets
MaxLost == 1

(* ---------------- JavaScript values and arrays ---------------- *)
Null == "null"
Undefined == "undefined"
X == "X"
O == "O"

\* JS truthiness of a cell value: null and undefined are falsy, 'X' and 'O' truthy
Truthy(v) == v # Null /\ v # Undefined

\* arr.length: one more than the largest element index
Length(arr) ==
  LET idx == {i \in DOMAIN arr : i >= 0}
  IN IF idx = {} THEN 0 ELSE (CHOOSE m \in idx : \A j \in idx : j <= m) + 1

\* arr[i]: a missing key reads as undefined
Get(arr, i) == IF i \in DOMAIN arr THEN arr[i] ELSE Undefined

\* [...arr]: iterates 0..length-1, holes become undefined, properties are dropped
Spread(arr) == [i \in 0 .. (Length(arr) - 1) |-> Get(arr, i)]

\* arr[i] = v
SetIndex(arr, i, v) == [j \in (DOMAIN arr) \cup {i} |-> IF j = i THEN v ELSE arr[j]]

someNotNull(arr) == \E i \in DOMAIN arr : i >= 0 /\ arr[i] # Null

\* arr.every(square => square !== null): visits existing elements only
everyNotNull(arr) == \A i \in DOMAIN arr : i >= 0 => arr[i] # Null

\* Array(9).fill(null)
BoardSize == 9
EmptyBoard == [i \in 0 .. (BoardSize - 1) |-> Null]

(* ---------------- calculateWinner ---------------- *)
linesNoAntiDiagonal ==
  << <<0, 1, 2>>, <<3, 4, 5>>, <<6, 7, 8>>,
     <<0, 3, 6>>, <<1, 4, 7>>, <<2, 5, 8>>,
     <<0, 4, 8>> >>

linesNoTopRow ==
  << <<3, 4, 5>>, <<6, 7, 8>>,
     <<0, 3, 6>>, <<1, 4, 7>>, <<2, 5, 8>>,
     <<0, 4, 8>>, <<2, 4, 6>> >>

linesMiddleRowFirst ==
  << <<3, 4, 5>>, <<0, 1, 2>>, <<6, 7, 8>>,
     <<0, 3, 6>>, <<1, 4, 7>>, <<2, 5, 8>>,
     <<0, 4, 8>>, <<2, 4, 6>> >>

lines ==
  << <<0, 1, 2>>, <<3, 4, 5>>, <<6, 7, 8>>,
     <<0, 3, 6>>, <<1, 4, 7>>, <<2, 5, 8>>,
     <<0, 4, 8>>, <<2, 4, 6>> >>

matchesFirstTwo(squares, l) ==
  /\ Truthy(squares[l[1]])
  /\ squares[l[1]] = squares[l[2]]

\* the if of the loop body for one line [a, b, c]; every board holds the
\* cells 0..8, so these reads never leave the array
matches(squares, l) ==
  /\ Truthy(squares[l[1]])
  /\ squares[l[1]] = squares[l[2]]
  /\ squares[l[1]] = squares[l[3]]

\* the for loop from position i (1-based here) on: the first line that
\* matches returns its mark, and null is returned when none does
winnerFrom(squares, i) ==
  IF \E k \in i .. Len(lines) : matches(squares, lines[k])
  THEN squares[lines[CHOOSE k \in i .. Len(lines) :
                      /\ matches(squares, lines[k])
                      /\ \A j \in i .. (k - 1) : ~matches(squares, lines[j])][1]]
  ELSE Null

calculateWinner(squares) == winnerFrom(squares, 1)

(* ---------------- render: winner and status line ---------------- *)
MarkAlwaysX(x) == X

\* isXNext ? 'X' : 'O'
Mark(x) == IF x THEN X ELSE O

statusTieFirst(b, x) ==
  LET w == calculateWinner(b)
  IN IF everyNotNull(b) THEN <<"It's a tie!">>
     ELSE IF Truthy(w) THEN <<"Winner: ", w>>
     ELSE <<"Next player: ", Mark(x)>>

statusPreviousPlayer(b, x) ==
  LET w == calculateWinner(b)
  IN IF Truthy(w) THEN <<"Winner: ", w>>
     ELSE IF everyNotNull(b) THEN <<"It's a tie!">>
     ELSE <<"Next player: ", Mark(~x)>>

\* the status line, as the parts of its template literal
statusLine(b, x) ==
  LET w == calculateWinner(b)
  IN IF Truthy(w) THEN <<"Winner: ", w>>
     ELSE IF everyNotNull(b) THEN <<"It's a tie!">>
     ELSE <<"Next player: ", Mark(x)>>

\* which of the three branches a status line comes from
Kind(s) ==
  IF s[1] = "Winner: " THEN "Won"
  ELSE IF s[1] = "It's a tie!" THEN "Tie"
  ELSE "InProgress"

\* indices for which board.map renders a Square (map skips holes)
Squares(b) == {i \in DOMAIN b : i >= 0}

ButtonOnWinnerOnly == Truthy(winner)

\* the Play Again button is rendered
ButtonShown == Truthy(winner) \/ gameOver

(* ---------------- handleClick ---------------- *)
\* the operand of the guard's || chain that ends its left-to-right
\* evaluation: the first truthy one, "none" when all three are falsy
firstTrue(b, g, index) ==
  IF Truthy(Get(b, index)) THEN "occupied"
  ELSE IF g THEN "gameOver"
  ELSE IF Truthy(calculateWinner(b)) THEN "winner"
  ELSE "none"

guardOccupiedOnly(b, g, index) == Truthy(Get(b, index))

guardNoOccupied(b, g, index) == g \/ Truthy(calculateWinner(b))

\* the guard clause: board[index] || gameOver || calculateWinner(board)
guard(b, g, index) ==
  Truthy(Get(b, index)) \/ g \/ Truthy(calculateWinner(b))

newBoardFromEmpty(b, x, index) == SetIndex(EmptyBoard, index, Mark(x))

\* const newBoard = [...board]; newBoard[index] = isXNext ? 'X' : 'O'
newBoardOf(b, x, index) == SetIndex(Spread(b), index, Mark(x))

newBoardAliased == "old"

\* const newBoard = [...board]: which array object newBoard refers to, the
\* one held in state ("old") or one of its own ("new")
newBoardObject == "new"

\* the array held in state, after newBoard[index] = mark: the assignment
\* writes into the object newBoard refers to, and reaches this array only
\* when that object is the array itself
heldAfterAssign(b, x, index) ==
  IF newBoardObject = "old" THEN SetIndex(b, index, Mark(x)) ELSE b

nextTurnSame(x) == x

\* !isXNext
nextTurn(x) == ~x

isOverWinnerOnly(nb, g) == IF Truthy(calculateWinner(nb)) THEN TRUE ELSE g

\* gameOver after the move: set to true on a winner or a board without null
isOver(nb, g) ==
  IF Truthy(calculateWinner(nb)) \/ everyNotNull(nb) THEN TRUE ELSE g

\* the values a render of App with state (b, x, g) gives to its handlers
Closure(b, x, g) ==
  [board |-> b, isXNext |-> x, gameOver |-> g, clicks |-> <<>>]

\* a render of App with board b, turn x and the gameOver of the new state
Rendered(b, x) ==
  /\ winner' = calculateWinner(b)
  /\ status' = statusLine(b, x)
  /\ snap' = Closure(b, x, gameOver')

handleClick(index) ==
  \/ /\ guard(board, gameOver, index)
     /\ UNCHANGED <<board, isXNext, gameOver, moves>>
     /\ held' = board
     /\ Rendered(board, isXNext)
     /\ last' = [op |-> "click", index |-> index, accepted |-> FALSE,
                 before |-> Kind(status),
                 why |-> firstTrue(board, gameOver, index)]
  \/ /\ ~guard(board, gameOver, index)
     /\ board' = newBoardOf(board, isXNext, index)
     /\ isXNext' = nextTurn(isXNext)
     /\ gameOver' = isOver(board', gameOver)
     /\ moves' = moves + 1
     /\ held' = heldAfterAssign(board, isXNext, index)
     /\ Rendered(board', isXNext')
     /\ last' = [op |-> "click", index |-> index, accepted |-> TRUE,
                 before |-> Kind(status), why |-> "none"]

(* ---------------- resetGame ---------------- *)
resetGameKeepsTurn ==
  /\ board' = EmptyBoard
  /\ isXNext' = isXNext
  /\ gameOver' = FALSE
  /\ moves' = 0
  /\ held' = EmptyBoard
  /\ Rendered(board', isXNext')
  /\ last' = [op |-> "reset", index |-> 0, accepted |-> TRUE,
              before |-> Kind(status), why |-> "none"]

resetGame ==
  /\ board' = EmptyBoard
  /\ isXNext' = TRUE
  /\ gameOver' = FALSE
  /\ moves' = 0
  /\ held' = EmptyBoard
  /\ Rendered(board', isXNext')
  /\ last' = [op |-> "reset", index |-> 0, accepted |-> TRUE,
              before |-> Kind(status), why |-> "none"]

(* ---------------- the component as it runs in the page ---------------- *)
Init ==
  /\ board = EmptyBoard
  /\ isXNext = TRUE
  /\ gameOver = FALSE
  /\ winner = calculateWinner(EmptyBoard)
  /\ status = statusLine(EmptyBoard, TRUE)
  /\ moves = 0
  /\ held = EmptyBoard
  /\ snap = Closure(EmptyBoard, TRUE, FALSE)
  /\ last = [op |-> "init", index |-> 0, accepted |-> FALSE,
             before |-> "InProgress", why |-> "none"]

\* a click on one of the rendered squares
ClickSquare == \E index \in Squares(board) : handleClick(index)

\* a click on the Play Again button, which exists only when it is rendered
PlayAgain == ButtonShown /\ resetGame

Next == ClickSquare \/ PlayAgain

Spec == Init /\ [][Next]_vars

(* ------- the component with a player who keeps clicking empty squares ------- *)
\* a click on a rendered square that shows no mark
ClickEmpty ==
  \E index \in {i \in Squares(board) : board[i] = Null} : handleClick(index)

\* such a click, accepted by handleClick
AcceptedClick == moves' = moves + 1 /\ ClickEmpty

NextPlaying == ClickEmpty \/ PlayAgain

\* an accepted click that stays possible is eventually made
SpecPlaying == Init /\ [][NextPlaying]_vars /\ WF_vars(AcceptedClick)

(* ------- the handlers of one render called more than once before the next ------- *)
\* handleClick as a handler of the last render runs it: board, isXNext and
\* gameOver are the values of that render, the setters take plain values,
\* and setGameOver is called only with true
handleClickOfRender(index) ==
  \/ /\ guard(snap.board, snap.gameOver, index)
     /\ UNCHANGED <<board, isXNext, gameOver, moves, winner, status, snap>>
     /\ held' = snap.board
     /\ last' = [op |-> "click", index |-> index, accepted |-> FALSE,
                 before |-> Kind(status),
                 why |-> firstTrue(snap.board, snap.gameOver, index)]
  \/ /\ ~guard(snap.board, snap.gameOver, index)
     /\ board' = newBoardOf(snap.board, snap.isXNext, index)
     /\ isXNext' = nextTurn(snap.isXNext)
     /\ gameOver' = isOver(board', gameOver)
     /\ moves' = moves + 1
     /\ held' = heldAfterAssign(snap.board, snap.isXNext, index)
     /\ snap' = [snap EXCEPT !.clicks = Append(@, index)]
     /\ UNCHANGED <<winner, status>>
     /\ last' = [op |-> "click", index |-> index, accepted |-> TRUE,
                 before |-> Kind(status), why |-> "none"]

\* resetGame run by the Play Again button of the last render
resetGameOfRender ==
  /\ Truthy(winner) \/ snap.gameOver
  /\ board' = EmptyBoard
  /\ isXNext' = TRUE
  /\ gameOver' = FALSE
  /\ moves' = 0
  /\ held' = EmptyBoard
  /\ snap' = [snap EXCEPT !.clicks = <<>>]
  /\ UNCHANGED <<winner, status>>
  /\ last' = [op |-> "reset", index |-> 0, accepted |-> TRUE,
              before |-> Kind(status), why |-> "none"]

\* the accepted clicks since the last reset whose mark a later click of the
\* same render has overwritten
Lost ==
  moves - Cardinality({i \in DOMAIN snap.board : Truthy(snap.board[i])})
        - Len(snap.clicks)

\* a click on a square of the last render that shows no mark
ClickOfRender ==
  /\ Len(snap.clicks) < MaxBatch
  /\ snap.clicks = <<>> \/ Lost < MaxLost
  /\ \E index \in {i \in Squares(snap.board) : snap.board[i] = Null} :
        handleClickOfRender(index)

\* React renders App again with the state the setters left
Rerender ==
  /\ <<board, isXNext, gameOver>> # <<snap.board, snap.isXNext, snap.gameOver>>
  /\ UNCHANGED <<board, isXNext, gameOver, moves, held>>
  /\ Rendered(board, isXNext)
  /\ last' = [op |-> "render", index |-> 0, accepted |-> FALSE,
              before |-> Kind(status), why |-> "none"]

NextOfRender == ClickOfRender \/ resetGameOfRender \/ Rerender

SpecOfRender == Init /\ [][NextOfRender]_vars

(* ------- the handlers called directly, with any index, at any time ------- *)
\* -1 stands for the negative indices, which all behave alike
Indices == (0 - 1) .. (BoardSize - 1 + MaxOver)

CallHandleClick == moves < MaxCalls /\ \E index \in Indices : handleClick(index)

CallResetGame == resetGame

NextAny == CallHandleClick \/ CallResetGame

SpecAny == Init /\ [][NextAny]_vars

(* ------- the render computation applied to every 9-cell board ------- *)
AllBoards == [0 .. (BoardSize - 1) -> {Null, X, O}]

InitPure ==
  /\ board \in AllBoards
  /\ isXNext \in BOOLEAN
  /\ gameOver = FALSE
  /\ winner = Undefined
  /\ status = <<"not rendered">>
  /\ moves = 0
  /\ held = board
  /\ snap = Closure(board, isXNext, FALSE)
  /\ last = [op |-> "init", index |-> 0, accepted |-> FALSE,
             before |-> "InProgress", why |-> "none"]

Render ==
  /\ last.op = "init"
  /\ UNCHANGED <<board, isXNext, gameOver, moves, held>>
  /\ Rendered(board, isXNext)
  /\ last' = [last EXCEPT !.op = "render"]

NextPure == Render

SpecPure == InitPure /\ [][NextPure]_vars

(* ---------------- vocabulary of the properties ---------------- *)
LineSet == {{0, 1, 2}, {3, 4, 5}, {6, 7, 8}, {0, 3, 6}, {1, 4, 7}, {2, 5, 8},
            {0, 4, 8}, {2, 4, 6}}

HasLine(b, m) == \E l \in LineSet : \A i \in l : i \in DOMAIN b /\ b[i] = m

Full(b) == \A i \in 0 .. 8 : i \in DOMAIN b /\ b[i] \in {X, O}

Won(b) == HasLine(b, X) \/ HasLine(b, O)

Count(b, m) == Cardinality({i \in DOMAIN b : b[i] = m})

\* the status line has been computed for the current board
Shown == status[1] # "not rendered"

\* the status the render derives from the current board is Won or Tie
Terminal == Kind(statusLine(board, isXNext)) # "InProgress"

\* the status a board alone determines: Won(X), Won(O), Tie or InProgress
DerivedStatus(b) ==
  LET s == statusLine(b, TRUE)
  IN [kind |-> Kind(s), mark |-> IF Kind(s) = "Won" THEN s[2] ELSE Null]

\* the scripted games of the scenarios: the indices clicked, in order
ScenarioA == <<0, 4, 1, 5, 2>>

ScenarioB == <<0, 1, 2, 4, 3, 5, 7, 6, 8>>

\* the board a script is meant to give after its first k clicks: the odd
\* clicks are X's, the even ones O's
BoardAfter(script, k) ==
  [i \in 0 .. 8 |->
     IF \E p \in 1 .. k : script[p] = i /\ p % 2 = 1 THEN X
     ELSE IF \E p \in 1 .. k : script[p] = i /\ p % 2 = 0 THEN O
     ELSE Null]

\* the boards of the two scripts, by number of clicks made
BoardsA == [k \in 0 .. Len(ScenarioA) |-> BoardAfter(ScenarioA, k)]

BoardsB == [k \in 0 .. Len(ScenarioB) |-> BoardAfter(ScenarioB, k)]

\* the 8 lines in the order the specification gives them
OrderedLines ==
  << {0, 1, 2}, {3, 4, 5}, {6, 7, 8}, {0, 3, 6}, {1, 4, 7}, {2, 5, 8},
     {0, 4, 8}, {2, 4, 6} >>

\* the three cells of line l of board b hold the same mark
Complete(b, l) == \E m \in {X, O} : \A i \in l : b[i] = m

\* the mark of the first complete line in that order, null when there is none
FirstLineMark(b) ==
  LET hits == {k \in 1 .. Len(OrderedLines) : Complete(b, OrderedLines[k])}
  IN IF hits = {} THEN Null
     ELSE LET k == CHOOSE h \in hits : \A g \in hits : h <= g
          IN b[CHOOSE i \in OrderedLines[k] : TRUE]

TypeOK ==
  /\ isXNext \in BOOLEAN
  /\ gameOver \in BOOLEAN
  /\ moves \in 0 .. BoardSize

(* ---------------- properties ---------------- *)

\* C1: in a state whose derived status is Won or Tie, the guard rejects a
\* click at every index 0..8, every click leaves board, turn and flag
\* unchanged, and only reset changes board or turn.
C1_TerminalAbsorbing ==
  [][ Terminal =>
        /\ \A i \in 0 .. 8 : guard(board, gameOver, i)
        /\ (last'.op = "click" =>
              ~last'.accepted /\ UNCHANGED <<board, isXNext, gameOver>>)
        /\ (<<board, isXNext>>' # <<board, isXNext>> => last'.op = "reset")
    ]_vars

\* a click on an empty cell of a won board was rejected
C1_Witness ==
  /\ last.op = "click" /\ ~last.accepted /\ last.before = "Won"
  /\ Kind(status) = "Won"
  /\ board[last.index] = Null

\* C2: after n accepted moves since the initial state or the last reset the
\* turn is X iff n is even, and a rejected move leaves the turn unchanged.
C2_TurnAlternates ==
  /\ [](isXNext <=> (moves % 2 = 0))
  /\ [][ (last'.op = "click" /\ ~last'.accepted) => isXNext' = isXNext ]_vars

\* three moves accepted, then a rejected click: still O's turn
C2_Witness ==
  /\ moves = 3 /\ ~isXNext
  /\ last.op = "click" /\ ~last.accepted

\* C3: a call of handleClick with an index outside 0..8 is rejected and
\* leaves board, turn and game-over flag unchanged.
C3_OutOfRangeRejected ==
  [][ (last'.op = "click" /\ last'.index \notin 0 .. 8) =>
        ~last'.accepted /\ UNCHANGED <<board, isXNext, gameOver>> ]_vars

\* C4: the board has exactly the 9 cells 0..8, each null, 'X' or 'O', after
\* any sequence of handleClick calls (any index) and resets.
C4_BoardHasNineCells ==
  /\ DOMAIN board = 0 .. 8
  /\ \A i \in 0 .. 8 : board[i] \in {Null, X, O}

\* C5: a click on an occupied cell is rejected and changes neither board nor
\* turn, and no click overwrites or removes a mark already on the board.
C5_OccupiedRejected ==
  [][ last'.op = "click" =>
        /\ (Truthy(Get(board, last'.index)) =>
              ~last'.accepted /\ UNCHANGED <<board, isXNext>>)
        /\ \A i \in DOMAIN board :
              board[i] \in {X, O} => i \in DOMAIN board' /\ board'[i] = board[i]
    ]_vars

\* a click on an occupied cell of a game in progress was rejected
C5_Witness ==
  /\ last.op = "click" /\ ~last.accepted /\ last.before = "InProgress"
  /\ board[last.index] \in {X, O}
  /\ ~gameOver

\* C6: the stored gameOver flag is true exactly when the status derived from
\* the board is Won or Tie.
C6_FlagMatchesStatus == gameOver <=> Terminal

\* a tie: the flag is set and no line is complete
C6_Witness == gameOver /\ Kind(status) = "Tie" /\ ~Won(board)

\* C7: an accepted click at index i turns cell i from null into the mark of
\* the player to move, leaves every other cell as it was, and flips the turn.
C7_AcceptedMoveFrame ==
  [][ (last'.op = "click" /\ last'.accepted) =>
        /\ board[last'.index] = Null
        /\ board'[last'.index] = (IF isXNext THEN X ELSE O)
        /\ DOMAIN board' = DOMAIN board
        /\ \A j \in DOMAIN board \ {last'.index} : board'[j] = board[j]
        /\ isXNext' = ~isXNext
    ]_vars

\* O's second move was accepted
C7_Witness ==
  /\ last.op = "click" /\ last.accepted
  /\ moves = 4 /\ board[last.index] = O

\* C8: resetGame yields 9 null cells, X to move, gameOver false and an
\* in-progress status, whatever the state it is called in.
C8_ResetYieldsInitial ==
  last.op = "reset" =>
    /\ board = [i \in 0 .. 8 |-> Null]
    /\ isXNext
    /\ ~gameOver
    /\ status = <<"Next player: ", X>>
    /\ winner = Null

\* a reset of a won game
C8_Witness == last.op = "reset" /\ last.before = "Won" /\ moves = 0

\* C9: a full board with a completed line is reported as Won for a mark
\* that has a line, never as a tie.
C9_WonBeforeTie ==
  (Shown /\ Full(board) /\ Won(board)) =>
    /\ Kind(status) = "Won"
    /\ HasLine(board, status[2])

\* the board after a ninth move by X that completes a line
C9_Witness ==
  /\ last.op = "render" /\ Full(board)
  /\ Count(board, X) = 5 /\ Count(board, O) = 4
  /\ HasLine(board, X) /\ ~HasLine(board, O)
  /\ status = <<"Winner: ", X>>

\* C10: every 9-cell board with a completed line is reported as Won for a
\* mark that has a completed line, whatever the other cells hold.
C10_LineMeansWon ==
  (Shown /\ Won(board)) =>
    /\ status[1] = "Winner: "
    /\ status[2] \in {X, O}
    /\ HasLine(board, status[2])

\* only the anti-diagonal is complete, other cells partly empty
C10_Witness ==
  /\ last.op = "render"
  /\ board[2] = O /\ board[4] = O /\ board[6] = O
  /\ board[0] = Null /\ board[8] = X /\ board[1] = X
  /\ ~HasLine(board, X)
  /\ status = <<"Winner: ", O>>

\* C11: every full 9-cell board without a completed line is reported as a
\* tie, and a tie is reported for full boards only.
C11_TieIffFullNoLine ==
  Shown =>
    /\ (Full(board) /\ ~Won(board)) => status = <<"It's a tie!">>
    /\ Kind(status) = "Tie" => Full(board) /\ ~Won(board)

\* a full board without a line, rendered as a tie
C11_Witness ==
  /\ last.op = "render" /\ Full(board) /\ ~Won(board)
  /\ Count(board, X) = 5 /\ Count(board, O) = 4
  /\ status = <<"It's a tie!">>

\* C12: every 9-cell board without a completed line and with an empty cell
\* is reported as in progress, and the status line names the player to move.
C12_InProgressNamesPlayer ==
  (Shown /\ ~Won(board) /\ ~Full(board)) =>
    /\ Kind(status) = "InProgress"
    /\ status = <<"Next player: ", IF isXNext THEN X ELSE O>>

\* a board with marks, no line and an empty cell, O to move
C12_Witness ==
  /\ last.op = "render" /\ ~Won(board) /\ ~Full(board)
  /\ Count(board, X) = 3 /\ Count(board, O) = 2 /\ ~isXNext
  /\ status = <<"Next player: ", O>>

\* C13: the first failing check among (1) index out of range, (2) game
\* already over, (3) cell occupied decides a rejected move: an out-of-range
\* index is always rejected for its range, any in-range click on a Won or
\* Tie board is rejected for the ended game and not for the occupied cell,
\* and only then does an occupied cell count.
C13_PreconditionOrder ==
  [][ last'.op = "click" =>
        IF last'.index \notin 0 .. 8
        THEN ~last'.accepted /\ last'.why \notin {"occupied", "gameOver", "winner"}
        ELSE IF Terminal
        THEN ~last'.accepted /\ last'.why \in {"gameOver", "winner"}
        ELSE last'.accepted <=> ~Truthy(board[last'.index])
    ]_vars

\* C14: handleClick never changes the array it was given: after a call,
\* accepted or rejected, the array that was the board before the call holds
\* what it held then, and an accepted call commits another array.
C14_InputNotMutated ==
  [][ last'.op = "click" =>
        /\ held' = board
        /\ last'.accepted => board' # held'
    ]_vars

\* after O's accepted move the earlier array still shows the cell empty
C14_Witness ==
  /\ last.op = "click" /\ last.accepted
  /\ held[last.index] = Null /\ board[last.index] = O
  /\ moves = 2

\* C15: the Play Again click can be fired exactly in the states whose
\* derived status is Won or Tie.
C15_ResetOnlyWhenOver ==
  /\ ButtonShown <=> Terminal
  /\ (ENABLED PlayAgain) <=> Terminal

\* a tie: no winner, the button is there through the gameOver flag alone
C15_Witness ==
  /\ Kind(status) = "Tie" /\ ~Truthy(winner)
  /\ ButtonShown /\ ENABLED PlayAgain

\* C16: a click changes the derived status only from InProgress (to
\* InProgress, Won or Tie); from Won(X), Won(O) or Tie no click is accepted
\* and the status stays what it was.
C16_StatusTransitions ==
  [][ last'.op = "click" =>
        /\ last'.accepted => DerivedStatus(board).kind = "InProgress"
        /\ DerivedStatus(board).kind # "InProgress" =>
             DerivedStatus(board') = DerivedStatus(board)
        /\ DerivedStatus(board') # DerivedStatus(board) =>
             /\ last'.accepted
             /\ DerivedStatus(board').kind \in {"Won", "Tie"}
    ]_vars

\* O's third move took the game from InProgress to Won(O)
C16_Witness ==
  /\ last.op = "click" /\ last.accepted /\ last.before = "InProgress"
  /\ moves = 6 /\ status = <<"Winner: ", O>>

\* C17: Scenario A. The fresh game is the empty board, and from the board
\* after the first k-1 clicks of 0,4,1,5,2 the k-th click is accepted and
\* gives the board after k clicks; the status is InProgress after each of
\* the first four and Won(X) after the fifth.
C17_ScenarioA ==
  /\ board = BoardsA[0]
  /\ [][ \A k \in 1 .. Len(ScenarioA) :
           ( /\ last'.op = "click"
             /\ last'.index = ScenarioA[k]
             /\ board = BoardsA[k - 1] ) =>
             /\ last'.accepted
             /\ board' = BoardsA[k]
             /\ status' = (IF k < Len(ScenarioA)
                           THEN <<"Next player: ", IF k % 2 = 1 THEN O ELSE X>>
                           ELSE <<"Winner: ", X>>)
     ]_vars

\* the end of Scenario A: X's click on 2 completed the top row
C17_Witness ==
  /\ board = BoardsA[5]
  /\ last.op = "click" /\ last.index = 2 /\ last.accepted
  /\ moves = 5 /\ gameOver
  /\ status = <<"Winner: ", X>>

\* C18: Scenario B. From the board after the first k-1 clicks of
\* 0,1,2,4,3,5,7,6,8 the k-th click is accepted and places X (k odd) or O
\* (k even); no board before the last is Won, and the last is a tie.
C18_ScenarioB ==
  /\ board = BoardsB[0]
  /\ [][ \A k \in 1 .. Len(ScenarioB) :
           ( /\ last'.op = "click"
             /\ last'.index = ScenarioB[k]
             /\ board = BoardsB[k - 1] ) =>
             /\ last'.accepted
             /\ board' = BoardsB[k]
             /\ ~Won(board')
             /\ status' = (IF k < Len(ScenarioB)
                           THEN <<"Next player: ", IF k % 2 = 1 THEN O ELSE X>>
                           ELSE <<"It's a tie!">>)
     ]_vars

\* the end of Scenario B: X's click on 8 filled the board without a line
C18_Witness ==
  /\ board = BoardsB[9]
  /\ last.op = "click" /\ last.index = 8 /\ last.accepted
  /\ moves = 9 /\ gameOver
  /\ status = <<"It's a tie!">>

\* C19: calculateWinner goes through exactly the 8 lines, in the order
\* {0,1,2} {3,4,5} {6,7,8} {0,3,6} {1,4,7} {2,5,8} {0,4,8} {2,4,6}, and on
\* every 9-cell board returns the mark of the first complete line in that
\* order, or null when no line is complete.
C19_FirstLineInOrder ==
  Shown =>
    /\ Len(lines) = Len(OrderedLines)
    /\ \A k \in 1 .. Len(lines) :
         {lines[k][1], lines[k][2], lines[k][3]} = OrderedLines[k]
    /\ winner = FirstLineMark(board)

\* X holds the top row and O the middle row: the top row is found first
C19_Witness ==
  /\ last.op = "render"
  /\ \A i \in {0, 1, 2} : board[i] = X
  /\ \A i \in {3, 4, 5} : board[i] = O
  /\ winner = X

\* C20: in play X and O never both hold a complete line, so every complete
\* line of a reachable board carries the reported winner's mark, whatever
\* the order in which the lines are examined.
C20_NoDoubleWinner ==
  /\ ~(HasLine(board, X) /\ HasLine(board, O))
  /\ \A l \in LineSet : \A m \in {X, O} :
       (\A i \in l : board[i] = m) => winner = m

\* X's last move completed two lines at once
C20_Witness ==
  /\ Cardinality({l \in LineSet : \A i \in l : board[i] = X}) = 2
  /\ winner = X /\ last.op = "click" /\ last.accepted

\* C21: on every reachable board the number of X marks exceeds the number
\* of O marks by 0 or 1, and it is X's turn exactly when the two are equal.
C21_MarkCounts ==
  /\ Count(board, X) - Count(board, O) \in {0, 1}
  /\ isXNext <=> (Count(board, X) = Count(board, O))

\* three X against two O: O is to move
C21_Witness ==
  /\ Count(board, X) = 3 /\ Count(board, O) = 2
  /\ ~isXNext /\ last.op = "click" /\ last.accepted

\* C22: the winner is the player of the last accepted move. In every Won(m)
\* state the turn names the other mark, and the accepted click that leads to
\* a won board was made on a board without a complete line (the won board
\* minus the mark just placed) by the player who is reported as winner.
C22_WinnerMovedLast ==
  /\ [](Kind(status) = "Won" => (winner = X <=> ~isXNext))
  /\ [][ (last'.op = "click" /\ last'.accepted /\ Won(board')) =>
           /\ ~Won(board)
           /\ board = [board' EXCEPT ![last'.index] = Null]
           /\ board'[last'.index] = winner'
           /\ winner' = (IF isXNext THEN X ELSE O)
           /\ HasLine(board', winner')
     ]_vars

\* O won with its third move: the turn has passed to X
C22_Witness ==
  /\ status = <<"Winner: ", O>> /\ isXNext
  /\ last.op = "click" /\ last.accepted /\ board[last.index] = O
  /\ moves = 6

\* C23: every game ends. Between two resets at most 9 clicks are accepted,
\* no board is won before the 5th accepted click, an InProgress state always
\* has an index 0..8 whose click is accepted, and when empty squares keep
\* being clicked every InProgress state leads to a Won or Tie state.
C23_GameEnds ==
  /\ [](moves <= 9)
  /\ [](Kind(status) = "Won" => moves >= 5)
  /\ [](Kind(status) = "InProgress" =>
          \E i \in 0 .. 8 : ~guard(board, gameOver, i))
  /\ (Kind(status) = "InProgress") ~> (Kind(status) \in {"Won", "Tie"})

\* a game that needed all 9 clicks, the last one winning it
C23_Witness ==
  /\ moves = 9 /\ Kind(status) = "Won"
  /\ last.op = "click" /\ last.accepted

\* C24: when two clicks on different empty cells were accepted against one
\* render, the board of the next render holds a mark in both cells, one X
\* and one O, and its turn is the turn of the render the clicks ran against.
C24_NoClickLost ==
  [][ (last'.op = "render" /\ Len(snap.clicks) = 2
         /\ snap.clicks[1] # snap.clicks[2]) =>
        /\ {snap'.board[snap.clicks[1]], snap'.board[snap.clicks[2]]} = {X, O}
        /\ snap'.isXNext = snap.isXNext
    ]_vars

====
